---- MODULE Spec2Model ----
(***************************************************************************)
(* Model of get-yt-video-backend: the transcript resolver                  *)
(* (getYouTubeTranscript / processTranscript), the quiz generator          *)
(* (generateQuestions / validateQuestionCompleteness) and the POST         *)
(* get-transcript handler, in the three server variants of the repository: *)
(*   "app"     src/api/app.js (second copy, lines 285-597): lenient        *)
(*   "server"  src/backend/server.js: strict                               *)
(*   "part002" src/unnamed/part_002: lenient, imports ./transcript.js      *)
(* Text is a sequence of one-character strings, so that the replace chain, *)
(* trim, split and the regular expressions are computed on characters.     *)
(* Numbers with a fraction (confidence) are in hundredths: 0.6 is 60.      *)
(***************************************************************************)
EXTENDS Integers, Sequences, FiniteSets, TLC

VARIABLES
    variant,     \* which server file handles the request
    pc,          \* position of the request: idle, direct, page, track, resolved,
                 \* model, done
    frame,       \* the resolver the handler called ("none" before and after)
    videoId,     \* req.body.videoId
    calls,       \* the external calls made for the request, in order
    tracks,      \* captionTracks of the resolver, while the track fetch is awaited
    trackUrl,    \* the URL handed to axios.get for the caption track
    resolved,    \* what getYouTubeTranscript returned
    genArg,      \* the argument generateQuestions was called with
    modelOut,    \* the items of the array the model is writing as its answer
    response,    \* what the handler sent with res.json
    segment,     \* a caption segment (the text between <text> tags), in pieces
    decoded,     \* the segment after one, then two applications of the decoding
    question,    \* question.question handed to validateQuestionCompleteness, in pieces
    isComplete,  \* what validateQuestionCompleteness returned for it
    spoken,      \* the transcript handed to the lenient generateQuestions, in pieces
    cleanedTranscript,  \* cleanedTranscript of generateQuestions
    frontend,    \* which page script runs in the browser
    quizData,    \* let quizData
    currentQuestion,    \* let currentQuestion
    score,       \* let score
    incorrectAnswers,   \* let incorrectAnswers
    btn,         \* the get-questions button: disabled and textContent
    fetches,     \* the click handlers suspended at await fetch(...)
    quizContainer,      \* whether the radio inputs of a question are in the page
    submitButton,       \* whether the submit button is displayed
    retryButton  \* whether the retry button is displayed

requestVars == <<variant, pc, frame, videoId, calls, tracks, trackUrl, resolved,
                 genArg, modelOut, response>>
decodeVars == <<segment, decoded>>
validatorVars == <<question, isComplete>>
cleanVars == <<spoken, cleanedTranscript>>
browserVars == <<frontend, quizData, currentQuestion, score, incorrectAnswers,
                 btn, fetches, quizContainer, submitButton, retryButton>>

\* the variables of the parts a request does not touch
elsewhere == <<validatorVars, cleanVars, browserVars>>

vars == <<requestVars, decodeVars, validatorVars, cleanVars, browserVars>>

----------------------------------------------------------------------------
(* Characters and text *)

LowerLetters == <<"a","b","c","d","e","f","g","h","i","j","k","l","m",
                  "n","o","p","q","r","s","t","u","v","w","x","y","z">>
UpperLetters == <<"A","B","C","D","E","F","G","H","I","J","K","L","M",
                  "N","O","P","Q","R","S","T","U","V","W","X","Y","Z">>
Digits == {"0","1","2","3","4","5","6","7","8","9"}

Range(s) == {s[i] : i \in DOMAIN s}
LowerSet == Range(LowerLetters)
UpperSet == Range(UpperLetters)
LowerOf == [c \in UpperSet |->
               LowerLetters[CHOOSE i \in DOMAIN UpperLetters : UpperLetters[i] = c]]

\* [a-z], [A-Z], \s and \w of the regular expressions
IsLower(c) == c \in LowerSet
IsUpper(c) == c \in UpperSet
IsSpace(c) == c \in {" ", "\n", "\t"}
IsWordChar(c) == IsLower(c) \/ IsUpper(c) \/ c \in Digits \/ c = "_"

\* String.prototype.toLowerCase, one character
LowerChar(c) == IF IsUpper(c) THEN LowerOf[c] ELSE c

ToLowerCase(s) == [i \in DOMAIN s |-> LowerChar(s[i])]

Drop(s, n) == SubSeq(s, n + 1, Len(s))

StartsWith(s, p) == Len(s) >= Len(p) /\ SubSeq(s, 1, Len(p)) = p

EndsWith(s, p) == Len(s) >= Len(p) /\ SubSeq(s, Len(s) - Len(p) + 1, Len(s)) = p

\* String.prototype.includes
Includes(s, p) == \E i \in 0..(Len(s) - Len(p)) : SubSeq(s, i + 1, i + Len(p)) = p

\* s.replace(/p/g, r) for a literal p: leftmost matches, not overlapping
RECURSIVE ReplaceAll(_, _, _)
ReplaceAll(s, p, r) ==
    IF s = <<>> THEN <<>>
    ELSE IF StartsWith(s, p) THEN r \o ReplaceAll(Drop(s, Len(p)), p, r)
    ELSE <<Head(s)>> \o ReplaceAll(Tail(s), p, r)

\* String.prototype.trim
RECURSIVE TrimStart(_)
TrimStart(s) ==
    IF s # <<>> /\ IsSpace(Head(s)) THEN TrimStart(Tail(s)) ELSE s

RECURSIVE TrimEnd(_)
TrimEnd(s) ==
    IF s # <<>> /\ IsSpace(s[Len(s)]) THEN TrimEnd(SubSeq(s, 1, Len(s) - 1)) ELSE s

Trim(s) == TrimEnd(TrimStart(s))

\* the concatenation of a sequence of texts, by halves
RECURSIVE Flatten(_)
Flatten(parts) ==
    IF parts = <<>> THEN <<>>
    ELSE IF Len(parts) = 1 THEN parts[1]
    ELSE LET h == Len(parts) \div 2
         IN  Flatten(SubSeq(parts, 1, h)) \o Flatten(SubSeq(parts, h + 1, Len(parts)))

\* Array.prototype.join(" ")
JoinSpace(segs) ==
    IF segs = <<>> THEN <<>>
    ELSE Flatten([i \in 1..(2 * Len(segs) - 1) |->
                     IF i % 2 = 1 THEN segs[(i + 1) \div 2] ELSE <<" ">>])

\* s.split(' ').length: one more than the number of space characters
SplitSpaceLength(s) == Cardinality({i \in DOMAIN s : s[i] = " "}) + 1

----------------------------------------------------------------------------
(* Caption segments: the map callback of processTranscript *)

Ch(c) == <<c>>
EntAmp == <<"&","a","m","p",";">>
EntApos == <<"&","#","3","9",";">>
EntQuot == <<"&","q","u","o","t",";">>
EntLt == <<"&","l","t",";">>
EntGt == <<"&","g","t",";">>
EntAmpApos == <<"&","a","m","p",";","#","3","9",";">>
EntAmpQuot == <<"&","a","m","p",";","q","u","o","t",";">>
EntNbsp == <<"&","n","b","s","p",";">>

\* the chain of .replace calls up to .replace(/\n/g, " ")
ReplaceChain(s) ==
    LET r1 == ReplaceAll(s, EntAmpApos, Ch("'"))
        r2 == ReplaceAll(r1, EntAmpQuot, Ch("\""))
        r3 == ReplaceAll(r2, EntAmp, Ch("&"))
        r4 == ReplaceAll(r3, EntApos, Ch("'"))
        r5 == ReplaceAll(r4, EntQuot, Ch("\""))
        r6 == ReplaceAll(r5, EntLt, Ch("<"))
        r7 == ReplaceAll(r6, EntGt, Ch(">"))
    IN  ReplaceAll(r7, Ch("\n"), Ch(" "))

\* the replace without the g flag, text.replace(/&[^;]+;/, " "): the first
\* match only
RECURSIVE StripResidualOnce(_)
StripResidualOnce(s) ==
    IF s = <<>> THEN <<>>
    ELSE IF /\ Head(s) = "&"
            /\ Len(s) >= 3
            /\ s[2] # ";"
            /\ \E j \in 3..Len(s) : s[j] = ";"
    THEN LET j == CHOOSE j \in 3..Len(s) :
                      s[j] = ";" /\ \A k \in 3..(j - 1) : s[k] # ";"
         IN  Ch(" ") \o Drop(s, j)
    ELSE <<Head(s)>> \o StripResidualOnce(Tail(s))

\* text.replace(/&[^;]+;/g, " "): an ampersand, one or more characters that
\* are not a semicolon, and the first semicolon after them
RECURSIVE StripResidual(_)
StripResidual(s) ==
    IF s = <<>> THEN <<>>
    ELSE IF /\ Head(s) = "&"
            /\ Len(s) >= 3
            /\ s[2] # ";"
            /\ \E j \in 3..Len(s) : s[j] = ";"
    THEN LET j == CHOOSE j \in 3..Len(s) :
                      s[j] = ";" /\ \A k \in 3..(j - 1) : s[k] # ";"
         IN  Ch(" ") \o StripResidual(Drop(s, j))
    ELSE <<Head(s)>> \o StripResidual(Tail(s))

\* match => { let text = match[1].replace(...)...trim(); text = text.replace(...); return text; }
CleanSegment(s) == StripResidual(Trim(ReplaceChain(s)))

\* transcript.replace(/([a-z])\s+([A-Z])/g, "$1. $2"). A match is a lower-case
\* letter, the whole run of white space after it, and an upper-case letter; no
\* two matches share a character, so each character is rewritten on its own:
\* the letter that starts a match gets ". " after it, the white space of a
\* match goes, every other character stays.
RunEnd(s, i) ==
    \* the index of the first character after i that is not white space, 0 if none
    LET rest == {j \in (i + 1)..Len(s) : ~IsSpace(s[j])}
    IN  IF rest = {} THEN 0 ELSE CHOOSE j \in rest : \A k \in rest : j <= k

StartsMatch(s, i) ==
    /\ IsLower(s[i])
    /\ i + 2 <= Len(s)
    /\ IsSpace(s[i + 1])
    /\ RunEnd(s, i) # 0
    /\ IsUpper(s[RunEnd(s, i)])

InsideMatch(s, i) ==
    /\ IsSpace(s[i])
    /\ \E k \in 1..(i - 1) :
           /\ \A j \in (k + 1)..i : IsSpace(s[j])
           /\ StartsMatch(s, k)

AddPeriods(s) ==
    Flatten([i \in DOMAIN s |->
                IF StartsMatch(s, i) THEN <<s[i], ".", " ">>
                ELSE IF InsideMatch(s, i) THEN <<>>
                ELSE <<s[i]>>])

\* [...xml.matchAll(...)].map(...).filter(text => text.length > 0)
NonEmpty(t) == Len(t) > 0
CleanSegments(segs) == SelectSeq([i \in DOMAIN segs |-> CleanSegment(segs[i])], NonEmpty)

\* transcriptSegments.join(" ") and the sentence heuristic
JoinTranscript(segs) == AddPeriods(JoinSpace(CleanSegments(segs)))

----------------------------------------------------------------------------
(* Quiz generator: generateQuestions and validateQuestionCompleteness *)

Variants == {"app", "server", "part002"}
Strict(v) == v = "server"

\* q => q.confidence >= 0.6 / 0.8, in hundredths
LenientThreshold == 60
StrictThreshold == 80
\* q.question.length < 20 / < 30
LenientMinLength == 20
StrictMinLength == 30
\* finalQuestions.length < 3 / < 5
LenientFloor == 3
StrictFloor == 5

Threshold(v) == IF Strict(v) THEN StrictThreshold ELSE LenientThreshold
Floor(v) == IF Strict(v) THEN StrictFloor ELSE LenientFloor

MsgNotEnoughQuiz == "Not enough reliable information in the transcript to generate a quiz"
MsgNotEnoughTranscript == "Not enough reliable information in the transcript"
MsgGenerateFailed == "Failed to generate questions. Please try another video."
MsgInvalidResponse == "Invalid response from AI model."
MsgInvalidJson == "AI returned invalid JSON. Please try another video."
MsgVideoIdRequired == "Video ID is required"
MsgNotAvailable == "Transcripts not available"
MsgFailedFetch == "Failed to fetch transcript"
MsgNoValidContent == "No valid transcript content found"
MsgNotEnoughContent == "Not enough content in transcript"
MsgFailedProcess == "Failed to process transcript"
\* messages of the errors the runtime and the libraries raise
MsgTypeError == "TypeError: cannot read properties"
MsgSyntaxError == "SyntaxError: unexpected token"
MsgModelError == "GoogleGenerativeAI Error"
MsgRequestFailed == "Request failed with status code 404"
MsgNoCaptions == "No captions found"

\* error.message.includes("Not enough reliable information")
IncludesNotEnough(msg) == msg \in {MsgNotEnoughQuiz, MsgNotEnoughTranscript}

\* An item of the parsed array is a function from the names of its fields;
\* JSON null is the item whose only field is isNull.
HasField(q, f) == f \in DOMAIN q
IsNull(q) == HasField(q, "isNull")

\* the confidence filter with a strict comparison, q.confidence > t
ConfidenceTestAbove(v, q) ==
    IF IsNull(q) THEN "throw"
    ELSE IF HasField(q, "confidence") /\ q.confidence > Threshold(v) THEN "keep"
    ELSE "drop"

\* the confidence filter written as a rejection of low values, !(q.confidence < t):
\* undefined < t is false, so an item without confidence stays
ConfidenceTestNotBelow(v, q) ==
    IF IsNull(q) THEN "throw"
    ELSE IF HasField(q, "confidence") /\ q.confidence < Threshold(v) THEN "drop"
    ELSE "keep"

\* the callback of the confidence filter: reading a property of null raises,
\* a missing confidence is undefined and undefined >= t is false
ConfidenceTest(v, q) ==
    IF IsNull(q) THEN "throw"
    ELSE IF HasField(q, "confidence") /\ q.confidence >= Threshold(v) THEN "keep"
    ELSE "drop"

\* the callback of the lenient validation filter (new Set(undefined) is empty)
BasicValidation(q) ==
    IF ~HasField(q, "question") THEN "throw"
    ELSE IF Len(q.question) < LenientMinLength THEN "drop"
    ELSE IF ~HasField(q, "options") THEN "drop"
    ELSE IF Cardinality(Range(q.options)) # 4 THEN "drop"
    ELSE IF ~HasField(q, "correctAnswer") THEN "drop"
    ELSE IF q.correctAnswer \notin Range(q.options) THEN "drop"
    ELSE "keep"

Wd(a, b) == a \o Ch(" ") \o b
Articles == [the |-> <<"t","h","e">>, this |-> <<"t","h","i","s">>]
Adjectives == {<<"g","i","v","e","n">>, <<"a","b","o","v","e">>,
               <<"f","o","l","l","o","w","i","n","g">>,
               <<"m","e","n","t","i","o","n","e","d">>}
Nouns == {<<"e","x","p","r","e","s","s","i","o","n">>, <<"e","q","u","a","t","i","o","n">>,
          <<"f","o","r","m","u","l","a">>, <<"p","r","o","b","l","e","m">>}

\* suspiciousPatterns, each /.../i
SuspiciousPhrases ==
    {Wd(Wd(Articles.the, a), n) : a \in Adjectives, n \in Nouns}
    \cup {Wd(Articles.this, n) : n \in Nouns}
    \cup {<<"s","o","l","v","e"," ","f","o","r">>,
          <<"s","o","l","v","e"," ","t","h","e"," ","f","o","l","l","o","w","i","n","g">>}
    \cup {<<"f","i","n","d"," ","t","h","e"," ","v","a","l","u","e">>}

\* the patterns without their i flag
ContainsSuspiciousPhraseExact(t) ==
    \E p \in SuspiciousPhrases : Includes(t, p)

\* suspiciousPatterns.some(pattern => pattern.test(question.question))
ContainsSuspiciousPhrase(t) ==
    LET lower == ToLowerCase(t)
    IN  \E p \in SuspiciousPhrases : Includes(lower, p)

\* /[=<>+\-*\/^...]+/ with the superscript digits two, three and four
MathChars == {"=", "<", ">", "+", "-", "*", "/", "^", "sup2", "sup3", "sup4"}
HasMathContent(t) == \E i \in DOMAIN t : t[i] \in MathChars

\* /(?:in|of|for|with|by|the|a|to|as)\.?$/i
EndWords == {<<"i","n">>, <<"o","f">>, <<"f","o","r">>, <<"w","i","t","h">>, <<"b","y">>,
             <<"t","h","e">>, <<"a">>, <<"t","o">>, <<"a","s">>}
EndsIncomplete(t) ==
    LET lower == ToLowerCase(t)
    IN  \E w \in EndWords : EndsWith(lower, w) \/ EndsWith(lower, w \o Ch("."))

\* validateQuestionCompleteness: RegExp.test(undefined) tests "undefined",
\* which no pattern matches, and undefined.length raises
ValidateQuestionCompleteness(q) ==
    IF ~HasField(q, "question") THEN "throw"
    ELSE IF ContainsSuspiciousPhrase(q.question) /\ ~HasMathContent(q.question) THEN "drop"
    ELSE IF Len(q.question) < StrictMinLength THEN "drop"
    ELSE IF EndsIncomplete(Trim(q.question)) THEN "drop"
    ELSE "keep"

----------------------------------------------------------------------------
(* Transcript resolver: getYouTubeTranscript and processTranscript *)

\* transcript.split(' ').length < 50
MinWords == 50

Frames == {"app", "transcript", "part000"}
\* the resolver a server file calls: api/app.js defines its own, the other
\* two import ./transcript.js (src/api/transcript.js, or the older
\* src/unnamed/part_000)
FramesOf(v) ==
    IF v = "app" THEN {"app"}
    ELSE IF v = "server" THEN {"transcript", "part000"}
    ELSE {"transcript"}

ErrorResult(msg) == [type |-> "error", error |-> msg]
TextResult(t) == [type |-> "string", text |-> t]

\* A caption track is a function from the names of its fields; names and
\* URLs are texts, a field that is undefined is left out.
TimedText == <<"h","t","t","p","s",":","/","/","w","w","w",".","y","o","u","t","u","b","e",
               ".","c","o","m","/","a","p","i","/","t","i","m","e","d","t","e","x","t",
               "?","v","=","a","b","c">>
UrlCode == TimedText \o <<"&","i","d","=","1">>
UrlName == TimedText \o <<"&","i","d","=","2">>
UrlLangEn == TimedText \o <<"&","l","a","n","g","=","e","n">>
UrlOther == TimedText \o <<"&","l","a","n","g","=","f","r">>
NoUrl == <<>>

\* track.name?.simpleText?.toLowerCase().includes('english')
NameIncludesEnglish(name) ==
    /\ HasField(name, "simpleText")
    /\ Includes(ToLowerCase(name.simpleText), <<"e","n","g","l","i","s","h">>)
\* track.baseUrl?.includes('lang=en')
UrlIncludesLangEn(url) == Includes(url, <<"l","a","n","g","=","e","n">>)

\* the three tests of the callback of captionTracks.find
HasCodeEn(track) == HasField(track, "languageCode") /\ track.languageCode = "en"
HasNameEnglish(track) == HasField(track, "name") /\ NameIncludesEnglish(track.name)
HasUrlLangEn(track) == HasField(track, "baseUrl") /\ UrlIncludesLangEn(track.baseUrl)

\* the callback of captionTracks.find
IsEnglishTrack(track) == HasCodeEn(track) \/ HasNameEnglish(track) \/ HasUrlLangEn(track)

\* Array.prototype.find: the index of the first element that passes, 0 for undefined
FindEnglishTrack(list) ==
    IF \E i \in DOMAIN list : IsEnglishTrack(list[i])
    THEN CHOOSE i \in DOMAIN list :
             IsEnglishTrack(list[i]) /\ \A k \in 1..(i - 1) : ~IsEnglishTrack(list[k])
    ELSE 0

\* track.baseUrl, the empty text for undefined
BaseUrlOf(track) == IF HasField(track, "baseUrl") THEN track.baseUrl ELSE NoUrl

\* a selection that ranks the tests: a track by languageCode before a track
\* by name before a track by baseUrl, wherever they stand in the list
FirstOf(hits) == IF hits = {} THEN 0 ELSE CHOOSE i \in hits : \A k \in hits : i <= k
FindRanked(list) ==
    LET byCode == {i \in DOMAIN list : HasCodeEn(list[i])}
        byName == {i \in DOMAIN list : HasNameEnglish(list[i])}
        byUrl == {i \in DOMAIN list : HasUrlLangEn(list[i])}
    IN  IF byCode # {} THEN FirstOf(byCode)
        ELSE IF byName # {} THEN FirstOf(byName)
        ELSE FirstOf(byUrl)
SelectTrackUrlRanked(f, list) ==
    LET e == FindRanked(list)
    IN  IF f = "app"
        THEN BaseUrlOf(list[IF e # 0 THEN e ELSE 1])
        ELSE IF e # 0 /\ BaseUrlOf(list[e]) # NoUrl THEN BaseUrlOf(list[e])
        ELSE BaseUrlOf(list[1])

\* api/app.js: (captionTracks.find(...) || captionTracks[0]).baseUrl
\* transcript.js: englishTrack?.baseUrl || captionTracks[0].baseUrl
\* for a list with at least one entry; the empty text when no URL comes out
SelectTrackUrl(f, list) ==
    LET e == FindEnglishTrack(list)
    IN  IF f = "app"
        THEN BaseUrlOf(list[IF e # 0 THEN e ELSE 1])
        ELSE IF e # 0 /\ BaseUrlOf(list[e]) # NoUrl THEN BaseUrlOf(list[e])
        ELSE BaseUrlOf(list[1])

\* The fetched page, by what the resolvers read of it:
\*   captions  the text after the first "captions": up to ,"videoDetails
\*   alt       the text after the first "captionTracks": up to ,"audioTracks
\*   urls      the "baseUrl":"https://www.youtube.com/api/timedtext..." matches
\* A text is absent, not JSON (invalid), an object with
\* playerCaptionsTracklistRenderer.captionTracks (renderer), another object
\* (object), or an array of tracks (array).
Absent == [json |-> "absent"]
Invalid == [json |-> "invalid"]
OtherObject == [json |-> "object"]
Renderer(list) == [json |-> "renderer", tracks |-> list]
TrackArray(list) == [json |-> "array", tracks |-> list]

\* JSON.parse(`[${captionsMatch}]`): the parsed value as the one element
Wrapped == [wrapped |-> TRUE]

RECURSIVE UrlTracks(_)
\* matches.map(match => ({ baseUrl: match[1].replace(/\\u0026/g, '&') }))
UrlTracks(urls) ==
    IF urls = <<>> THEN <<>> ELSE <<[baseUrl |-> Head(urls)]>> \o UrlTracks(Tail(urls))

RECURSIVE UrlsOf(_)
\* the timedtext URLs written in a track list, in order
UrlsOf(list) ==
    IF list = <<>> THEN <<>>
    ELSE (IF BaseUrlOf(Head(list)) # NoUrl THEN <<BaseUrlOf(Head(list))>> ELSE <<>>)
         \o UrlsOf(Tail(list))

Found(list) == [ok |-> TRUE, tracks |-> list]

\* an extraction that reports missing caption data with throw new Error(msg)
\* inside the try of api/app.js, whose catch has its own message
NotFoundThrown(msg) == [ok |-> FALSE, error |-> MsgFailedFetch]

\* return { error: msg }
NotFound(msg) == [ok |-> FALSE, error |-> msg]

\* transcript.js lines 10-44: the two split() markers, JSON.parse with the
\* wrapping fallback, and the scan of the whole page in the catch
ExtractTranscriptJs(doc) ==
    LET captionsMatch == IF doc.captions.json # "absent" THEN doc.captions ELSE doc.alt
        captionTracks ==
            IF captionsMatch.json = "renderer" THEN captionsMatch.tracks
            ELSE IF captionsMatch.json = "invalid" THEN UrlTracks(doc.urls)
            ELSE <<Wrapped>>
    IN  IF captionsMatch.json = "absent" THEN NotFound(MsgNotAvailable)
        ELSE IF Len(captionTracks) = 0 THEN NotFound(MsgNotAvailable)
        ELSE Found(captionTracks)

\* api/app.js lines 481-521: the first pattern captures "captions":{ up to the
\* first closing brace, the second the inside of "captionTracks":[ up to the
\* first closing bracket, the third has no group; the capture of an object that
\* holds tracks ends inside its first track (whose first field is baseUrl), the
\* capture of an array holds its tracks, and is JSON only if it is one track
ExtractAppJs(doc) ==
    LET first == doc.captions.json \in {"renderer", "object"}
        second == ~first /\ doc.alt.json = "array" /\ doc.alt.tracks # <<>>
        captured ==
            IF first
            THEN IF doc.captions.json = "renderer" /\ doc.captions.tracks # <<>>
                 THEN UrlsOf(SubSeq(doc.captions.tracks, 1, 1))
                 ELSE <<>>
            ELSE UrlsOf(doc.alt.tracks)
        parses ==
            IF first
            THEN doc.captions.json = "object"
                 \/ (doc.captions.json = "renderer" /\ doc.captions.tracks = <<>>)
            ELSE Len(doc.alt.tracks) = 1
        captionTracks == IF parses THEN <<>> ELSE UrlTracks(captured)
    IN  IF ~first /\ ~second THEN NotFound(MsgNotAvailable)
        ELSE IF Len(captionTracks) = 0 THEN NotFound(MsgNotAvailable)
        ELSE Found(captionTracks)

\* part_000 lines 7-11: only the first track of the renderer object
ExtractPart000(doc) ==
    IF doc.captions.json = "absent" THEN NotFound(MsgNotAvailable)
    ELSE IF doc.captions.json = "invalid" THEN NotFound(MsgSyntaxError)
    ELSE IF doc.captions.json = "renderer" /\ doc.captions.tracks # <<>>
            /\ BaseUrlOf(doc.captions.tracks[1]) # NoUrl
    THEN Found(SubSeq(doc.captions.tracks, 1, 1))
    ELSE NotFound(MsgNoCaptions)

Extract(f, doc) ==
    IF f = "app" THEN ExtractAppJs(doc)
    ELSE IF f = "transcript" THEN ExtractTranscriptJs(doc)
    ELSE ExtractPart000(doc)

\* what a failed await or a raised error becomes in the resolver's catch
CatchMessage(f, msg) ==
    IF f = "app" THEN MsgFailedFetch
    ELSE IF f = "transcript" THEN MsgNotAvailable
    ELSE msg

\* an error raised inside the resolver's try
Raised(msg) == [type |-> "raise", message |-> msg]

\* a catch that hands the error on, catch (error) { throw error; }
Rethrow(f, outcome) == outcome

\* the resolver's outer try/catch around an outcome: a raised error becomes
\* the returned error object
Catch(f, outcome) ==
    IF outcome.type = "raise" THEN ErrorResult(CatchMessage(f, outcome.message))
    ELSE outcome

\* A response body, by what the resolvers read of it: whether it is a string,
\* whether it contains '<text', and the texts between the caption tags.
NotAString == [isString |-> FALSE, hasTextTag |-> FALSE, segments |-> <<>>]
\* an array that includes '<text': it has includes() but no matchAll()
ArrayWithTag == [isString |-> FALSE, hasTextTag |-> TRUE, segments |-> <<>>]
Markup(segs) == [isString |-> TRUE, hasTextTag |-> TRUE, segments |-> segs]
NoMarkup == [isString |-> TRUE, hasTextTag |-> FALSE, segments |-> <<>>]

\* api/app.js processTranscript
ProcessTranscript(xml) ==
    IF ~xml.isString THEN ErrorResult(MsgFailedProcess)
    ELSE IF Len(CleanSegments(xml.segments)) = 0 THEN ErrorResult(MsgNoValidContent)
    ELSE LET transcript == JoinTranscript(xml.segments)
         IN  IF SplitSpaceLength(transcript) < MinWords
             THEN ErrorResult(MsgNotEnoughContent)
             ELSE TextResult(transcript)

\* transcript.js lines 60-96
ProcessTranscriptJs(xml) ==
    IF ~xml.isString THEN Raised(MsgTypeError)
    ELSE LET transcript == JoinTranscript(xml.segments)
         IN  IF SplitSpaceLength(transcript) < MinWords
             THEN ErrorResult(MsgNotEnoughTranscript)
             ELSE TextResult(transcript)

\* part_000 line 15: .replace(/;#39;/g, "'").replace(/&quot;/g, '"').replace(/&/g, "")
LegacySegment(s) ==
    ReplaceAll(ReplaceAll(ReplaceAll(s, <<";","#","3","9",";">>, Ch("'")),
                          EntQuot, Ch("\"")),
               Ch("&"), <<>>)

LegacySegments(segs) == [i \in DOMAIN segs |-> LegacySegment(segs[i])]

\* part_000 lines 13-18: no word count
ProcessPart000(xml) ==
    IF ~xml.isString THEN Raised(MsgTypeError)
    ELSE TextResult(JoinSpace(LegacySegments(xml.segments)))

Process(f, xml) ==
    IF f = "app" THEN ProcessTranscript(xml)
    ELSE IF f = "transcript" THEN ProcessTranscriptJs(xml)
    ELSE ProcessPart000(xml)

----------------------------------------------------------------------------
(* Bounds and the inputs drawn within them *)

MaxTracks == 3       \* caption tracks in a page
MaxQuestions == 5    \* items in the model's array
MaxOdd == 2          \* items of the array other than QGood
MaxPieces == 3       \* pieces a caption segment is written from

\* req.body.videoId: absent from the body, the empty string, or an id
NoValue == "(undefined)"
VideoIds == {NoValue, "", "abc123"}

Anglais == [simpleText |-> <<"A","n","g","l","a","i","s">>]
English == [simpleText |-> <<"E","n","g","l","i","s","h"," ","(","U","K",")">>]
Francais == [simpleText |-> <<"F","r","a","n","c","a","i","s">>]
TrackCode == [languageCode |-> "en", name |-> Anglais, baseUrl |-> UrlCode]
TrackName == [languageCode |-> "en-GB", name |-> English, baseUrl |-> UrlName]
TrackLang == [languageCode |-> "fr", name |-> Francais, baseUrl |-> UrlLangEn]
TrackOther == [languageCode |-> "fr", name |-> Francais, baseUrl |-> UrlOther]
TrackCodeNoUrl == [languageCode |-> "en", name |-> English]
TrackNoUrl == [languageCode |-> "fr"]
TrackKinds == {TrackCode, TrackName, TrackLang, TrackOther, TrackCodeNoUrl, TrackNoUrl}

TrackLists == UNION {[1..n -> TrackKinds] : n \in 0..MaxTracks}

\* pages: the tracks under "captions": (and so under "captionTracks": too),
\* under "captionTracks": alone, in text that is not JSON, or with neither
\* marker (then with timedtext URLs elsewhere in the page, or with no caption
\* metadata at all)
Page(captions, alt, urls) ==
    [isString |-> TRUE, captions |-> captions, alt |-> alt, urls |-> urls]
\* response.data that is no string
NotAPage == [isString |-> FALSE, captions |-> Absent, alt |-> Absent, urls |-> <<>>]
Docs ==
    {Page(Renderer(l), TrackArray(l), UrlsOf(l)) : l \in TrackLists}
    \cup {Page(Absent, TrackArray(l), UrlsOf(l)) : l \in TrackLists}
    \cup {Page(Invalid, Absent, UrlsOf(l)) : l \in TrackLists}
    \cup {Page(Absent, Absent, UrlsOf(l)) : l \in TrackLists}
    \cup {Page(OtherObject, Absent, <<>>), NotAPage}

Words(n) == [i \in 1..n |-> Ch("w")]

\* caption bodies: n one-word segments, then perhaps a segment that is an
\* entity the chain does not know, or a capitalised word
Bodies ==
    {NotAString, ArrayWithTag, NoMarkup}
    \cup {Markup(Words(n) \o tail) :
            n \in {0, 1, MinWords - 1, MinWords},
            tail \in {<<>>, <<EntNbsp>>, <<Ch("W")>>}}

Pad(n) == [i \in 1..n |-> "x"]
Text(n) == Pad(n - 1) \o Ch("?")
Abcd == <<"A", "B", "C", "D">>

QGood == [question |-> Text(35), options |-> Abcd, correctAnswer |-> "A",
          confidence |-> 90, context |-> "ctx", source |-> "extra"]
QEdgeLenient == [question |-> Text(LenientMinLength), options |-> Abcd,
                 correctAnswer |-> "D", confidence |-> LenientThreshold]
QEdgeStrict == [question |-> Text(StrictMinLength), options |-> Abcd,
                correctAnswer |-> "B", confidence |-> StrictThreshold, context |-> "ctx"]
QLowConf == [question |-> Text(35), options |-> Abcd, correctAnswer |-> "A",
             confidence |-> LenientThreshold - 1]
QMidConf == [question |-> Text(35), options |-> Abcd, correctAnswer |-> "C",
             confidence |-> StrictThreshold - 1]
QShort == [question |-> Text(LenientMinLength - 1), options |-> Abcd,
           correctAnswer |-> "A", confidence |-> 90]
QDup == [question |-> Text(35), options |-> <<"A", "A", "B", "C">>,
         correctAnswer |-> "A", confidence |-> 90, context |-> "ctx"]
QFive == [question |-> Text(35), options |-> <<"A", "B", "C", "D", "A">>,
          correctAnswer |-> "A", confidence |-> 90, context |-> "ctx"]
QWrong == [question |-> Text(35), options |-> Abcd, correctAnswer |-> "E",
           confidence |-> 90, context |-> "ctx"]
QNoAnswer == [question |-> Text(35), options |-> Abcd, confidence |-> 90,
              context |-> "ctx"]
QNoConfidence == [question |-> Text(35), options |-> Abcd, correctAnswer |-> "A"]
QNoQuestion == [options |-> Abcd, correctAnswer |-> "A", confidence |-> 90]
QNull == [isNull |-> TRUE]

OddItems == {QEdgeLenient, QEdgeStrict, QLowConf, QMidConf, QShort, QDup, QFive,
             QWrong, QNoAnswer, QNoConfidence, QNoQuestion, QNull}
Items == {QGood} \cup OddItems

OddCount(items) == Cardinality({i \in DOMAIN items : items[i] # QGood})

\* what model.generateContent gives other than an array
Failures == {"reject", "noResponse", "invalidJson", "notArray"}

\* pieces a caption segment is written from
Pieces == {EntAmp, EntLt, EntApos, EntNbsp, EntAmpApos, Ch("&"), Ch(";"),
           <<"l","t",";">>, <<"a","m","p",";">>, Ch("w"), Ch(" "), Ch("\n")}

ValidationTest(v, q) ==
    IF Strict(v) THEN ValidateQuestionCompleteness(q) ELSE BasicValidation(q)

\* the callbacks on the items the model can write, computed once per item
ConfidenceTable == [v \in Variants |-> [q \in Items |-> ConfidenceTest(v, q)]]
ValidationTable == [v \in Variants |-> [q \in Items |-> ValidationTest(v, q)]]
ConfidenceOf(v, q) == ConfidenceTable[v][q]
ValidationOf(v, q) == ValidationTable[v][q]

\* Array.prototype.filter; verdict gives the callback's outcome on each item
RECURSIVE Filter(_, _)
Filter(items, verdict) ==
    IF items = <<>> THEN <<>>
    ELSE (IF verdict[Head(items)] = "keep" THEN <<Head(items)>> ELSE <<>>)
         \o Filter(Tail(items), verdict)

FilterThrows(items, verdict) == \E i \in DOMAIN items : verdict[items[i]] = "throw"

\* ({question, options, correctAnswer}) => ({question, options, correctAnswer});
\* a field the item lacks is undefined, and res.json writes no such property
FinalFields == {"question", "options", "correctAnswer"}
Project(q) == [f \in FinalFields \cap DOMAIN q |-> q[f]]

ProjectAll(items) == [i \in DOMAIN items |-> Project(items[i])]

Thrown(msg) == [ok |-> FALSE, message |-> msg]
Returned(list) == [ok |-> TRUE, result |-> list]

\* the gate with an inclusive comparison, finalQuestions.length <= floor
YieldGateInclusive(v, finalQuestions) ==
    IF Len(finalQuestions) <= Floor(v)
    THEN Thrown(MsgNotEnoughQuiz)
    ELSE Returned(finalQuestions)

\* if (finalQuestions.length < 3) throw ...; return finalQuestions
YieldGate(v, finalQuestions) ==
    IF Len(finalQuestions) < Floor(v)
    THEN Thrown(MsgNotEnoughQuiz)
    ELSE Returned(finalQuestions)

\* generateQuestions after the await: out is what model.generateContent gave
GenerateQuestions(v, out) ==
    IF out.kind = "reject" THEN Thrown(MsgModelError)
    ELSE IF out.kind = "noResponse" THEN Thrown(MsgInvalidResponse)
    ELSE IF out.kind = "invalidJson"
    THEN Thrown(IF Strict(v) THEN MsgSyntaxError ELSE MsgInvalidJson)
    ELSE IF out.kind = "notArray" THEN Thrown(MsgTypeError)
    ELSE IF FilterThrows(out.items, ConfidenceTable[v]) THEN Thrown(MsgTypeError)
    ELSE LET confident == Filter(out.items, ConfidenceTable[v])
         IN  IF FilterThrows(confident, ValidationTable[v]) THEN Thrown(MsgTypeError)
             ELSE YieldGate(v, ProjectAll(Filter(confident, ValidationTable[v])))

\* the resolvers' processing of each body, computed once per body
Processed == [f \in Frames |-> [data \in Bodies |-> Process(f, data)]]

----------------------------------------------------------------------------
(* The request: the POST get-transcript handler and what it awaits *)

NoModelOut == [kind |-> "none", items |-> <<>>]

Quiet ==
    /\ pc = "idle"
    /\ frame = "none"
    /\ videoId = ""
    /\ calls = <<>>
    /\ tracks = <<>>
    /\ trackUrl = NoUrl
    /\ resolved = [type |-> "none"]
    /\ genArg = [type |-> "none"]
    /\ modelOut = NoModelOut
    /\ response = <<>>

\* the parts a request does not touch, before anything happened in them
QuietValidator == question = <<>> /\ isComplete = "none"
QuietClean == spoken = <<>> /\ cleanedTranscript = <<>>
QuietBrowser ==
    /\ frontend = "none"
    /\ quizData = <<>>
    /\ currentQuestion = 0
    /\ score = 0
    /\ incorrectAnswers = <<>>
    /\ btn = [disabled |-> FALSE, textContent |-> "Get Questions"]
    /\ fetches = 0
    /\ quizContainer = "empty"
    /\ submitButton = FALSE
    /\ retryButton = FALSE
QuietElsewhere == QuietValidator /\ QuietClean /\ QuietBrowser

Init ==
    /\ variant \in Variants
    /\ Quiet
    /\ segment = <<>>
    /\ decoded = <<>>
    /\ QuietElsewhere

Send(status, body) == response' = Append(response, [status |-> status, body |-> body])

\* the status of a resolver error: api/app.js 400, server.js and part_002 404
ResolverErrorStatus(v) == IF v = "app" THEN 400 ELSE 404

\* an error test that asks for a raised Error, transcript instanceof Error:
\* the resolvers return plain objects, so it never holds
IsErrorInstance(v, r) == r.type = "exception"

\* typeof transcriptResult === 'object' && transcriptResult.error (api/app.js),
\* transcript && transcript.error (server.js, part_002)
IsErrorObject(v, r) == r.type = "error" /\ r.error # ""

\* a test for an absent id only, videoId === undefined
IsUndefined(id) == id = NoValue

\* !videoId
IsMissing(id) == id \in {NoValue, ""}

\* a handler whose answer to a missing id is not followed by return
ReceiveFallsThrough(id) ==
    /\ pc = "idle"
    /\ videoId' = id
    /\ IF IsMissing(id)
       THEN Send(400, [error |-> MsgVideoIdRequired])
       ELSE UNCHANGED response
    /\ \E f \in FramesOf(variant) :
          /\ frame' = f
          /\ pc' = IF f = "app" THEN "direct" ELSE "page"
          /\ calls' = <<IF f = "app" THEN "direct" ELSE "page">>
    /\ UNCHANGED <<variant, tracks, trackUrl, resolved, genArg, modelOut,
                   segment, decoded, elsewhere>>

\* the handler up to the call of getYouTubeTranscript
Receive(id) ==
    /\ pc = "idle"
    /\ videoId' = id
    /\ IF IsMissing(id)
       THEN /\ Send(400, [error |-> MsgVideoIdRequired])
            /\ pc' = "done"
            /\ UNCHANGED <<frame, calls>>
       ELSE /\ \E f \in FramesOf(variant) :
                  /\ frame' = f
                  /\ pc' = IF f = "app" THEN "direct" ELSE "page"
                  /\ calls' = <<IF f = "app" THEN "direct" ELSE "page">>
            /\ UNCHANGED response
    /\ UNCHANGED <<variant, tracks, trackUrl, resolved, genArg, modelOut,
                   segment, decoded, elsewhere>>

\* getYouTubeTranscript returns r to the handler that awaits it
ResolverReturns(r) ==
    /\ resolved' = r
    /\ tracks' = <<>>
    /\ trackUrl' = NoUrl
    /\ pc' = "resolved"
    /\ UNCHANGED <<variant, frame, videoId, calls, genArg, modelOut, response,
                   segment, decoded, elsewhere>>

\* a value by its type and, for an error object, its message: what is kept of
\* the transcript once the handler has it (its text goes into the prompt)
Kept(r) == IF r.type = "string" THEN [type |-> "string"] ELSE r

\* the handler from the return of getYouTubeTranscript to the await of the
\* model; the pre-clean and the prompt (api/app.js 338-368) shape only the text
\* sent to the model, whose answer is any array, so of the transcript the
\* request keeps its type
Handle ==
    /\ pc = "resolved"
    /\ resolved' = Kept(resolved)
    /\ frame' = "none"
    /\ IF IsErrorObject(variant, resolved)
       THEN /\ Send(ResolverErrorStatus(variant), [error |-> resolved.error])
            /\ pc' = "done"
            /\ UNCHANGED <<calls, genArg, modelOut>>
       ELSE IF resolved.type # "string" /\ ~Strict(variant)
       THEN \* transcript.replace is not a function
            /\ Send(500, [error |-> MsgGenerateFailed])
            /\ genArg' = Kept(resolved)
            /\ pc' = "done"
            /\ UNCHANGED <<calls, modelOut>>
       ELSE /\ genArg' = Kept(resolved)
            /\ calls' = Append(calls, "model")
            /\ modelOut' = [kind |-> "pending", items |-> <<>>]
            /\ pc' = "model"
            /\ UNCHANGED response
    /\ UNCHANGED <<variant, videoId, tracks, trackUrl, segment, decoded, elsewhere>>

AwaitPage ==
    /\ pc' = "page"
    /\ calls' = Append(calls, "page")
    /\ UNCHANGED <<variant, frame, videoId, tracks, trackUrl, resolved, genArg,
                   modelOut, response, segment, decoded, elsewhere>>

\* a direct attempt without its own try: the rejection reaches the outer catch
DirectFailsUncaught ==
    /\ pc = "direct"
    /\ ResolverReturns(Catch(frame, Raised(MsgRequestFailed)))

\* axios.get(directUrl) rejects: the inner catch, then the page
DirectFails ==
    /\ pc = "direct"
    /\ AwaitPage

\* axios.get(directUrl) resolves: data.includes of a value that is no string
\* raises inside the inner try
DirectReturns(data) ==
    /\ pc = "direct"
    /\ IF data.hasTextTag
       THEN ResolverReturns(Processed["app"][data])
       ELSE AwaitPage

PageFails ==
    /\ pc = "page"
    /\ ResolverReturns(Catch(frame, Raised(MsgRequestFailed)))

\* the page arrives: extraction, selection, and the fetch of the track
PageReturns(doc) ==
    /\ pc = "page"
    /\ LET got == Extract(frame, doc)
       IN  IF ~doc.isString
           THEN \* html.match / html.split is not a function
                ResolverReturns(Catch(frame, Raised(MsgTypeError)))
           ELSE IF ~got.ok
           THEN ResolverReturns(IF frame = "part000"
                                THEN Catch(frame, Raised(got.error))
                                ELSE ErrorResult(got.error))
           ELSE IF SelectTrackUrl(frame, got.tracks) = NoUrl
           THEN ResolverReturns(ErrorResult(MsgNotAvailable))
           ELSE /\ tracks' = got.tracks
                /\ trackUrl' = SelectTrackUrl(frame, got.tracks)
                /\ calls' = Append(calls, "track")
                /\ pc' = "track"
                /\ UNCHANGED <<variant, frame, videoId, resolved, genArg, modelOut,
                               response, segment, decoded, elsewhere>>

\* a track fetch that is tried a second time when it fails
TrackFetchedAgain ==
    /\ pc = "track"
    /\ IF Len(SelectSeq(calls, LAMBDA c : c = "track")) < 2
       THEN /\ calls' = Append(calls, "track")
            /\ UNCHANGED <<variant, pc, frame, videoId, tracks, trackUrl, resolved,
                           genArg, modelOut, response, segment, decoded, elsewhere>>
       ELSE ResolverReturns(Catch(frame, Raised(MsgRequestFailed)))

\* axios.get(englishTrack.baseUrl) rejects
TrackFails ==
    /\ pc = "track"
    /\ ResolverReturns(Catch(frame, Raised(MsgRequestFailed)))

TrackReturns(data) ==
    /\ pc = "track"
    /\ ResolverReturns(Catch(frame, Processed[frame][data]))

\* the model writes one more item of its array
ModelEmit(q) ==
    /\ pc = "model"
    /\ Len(modelOut.items) < MaxQuestions
    /\ OddCount(Append(modelOut.items, q)) <= MaxOdd
    /\ modelOut' = [modelOut EXCEPT !.items = Append(@, q)]
    /\ UNCHANGED <<variant, pc, frame, videoId, calls, tracks, trackUrl, resolved,
                   genArg, response, segment, decoded, elsewhere>>

\* a catch that answers every raised error with its own message and 400
RespondWithMessage(outcome) ==
    IF outcome.ok THEN Send(200, [result |-> outcome.result])
    ELSE Send(400, [error |-> outcome.message])

\* the handler after generateQuestions returned or raised
Respond(outcome) ==
    IF outcome.ok THEN Send(200, [result |-> outcome.result])
    ELSE IF IncludesNotEnough(outcome.message)
    THEN Send(400, [error |-> outcome.message])
    ELSE Send(500, [error |-> MsgGenerateFailed])

ModelDone(out) ==
    /\ modelOut' = out
    /\ Respond(GenerateQuestions(variant, out))
    /\ pc' = "done"
    /\ UNCHANGED <<variant, frame, videoId, calls, tracks, trackUrl, resolved,
                   genArg, segment, decoded, elsewhere>>

\* model.generateContent resolves with the array written so far
ModelReturns ==
    /\ pc = "model"
    /\ ModelDone([kind |-> "array", items |-> modelOut.items])

\* model.generateContent rejects, or resolves with no response, with text
\* that is not JSON, or with JSON that is no array
ModelFails(kind) ==
    /\ pc = "model"
    /\ modelOut.items = <<>>
    /\ ModelDone([kind |-> kind, items |-> <<>>])

\* each quantifier is under the guard of its action: a set of inputs is gone
\* through only in the states where the action can happen
Next ==
    \/ pc = "idle" /\ \E id \in VideoIds : Receive(id)
    \/ DirectFails
    \/ pc = "direct" /\ \E data \in Bodies : DirectReturns(data)
    \/ PageFails
    \/ pc = "page" /\ \E doc \in Docs : PageReturns(doc)
    \/ TrackFails
    \/ pc = "track" /\ \E data \in Bodies : TrackReturns(data)
    \/ Handle
    \/ pc = "model" /\ \E q \in Items : ModelEmit(q)
    \/ ModelReturns
    \/ pc = "model" /\ \E kind \in Failures : ModelFails(kind)

Spec == Init /\ [][Next]_vars

\* the positions at which a request waits for an awaited call to return or fail
\* (direct, page, track, model) or for the handler to go on (resolved)
Awaiting == {"direct", "page", "track", "resolved", "model"}

\* an awaited call returns or fails, or the handler goes on after the
\* resolver: the steps of Next that move a received request to another
\* position (DirectFails, DirectReturns, PageFails, PageReturns, TrackFails,
\* TrackReturns, Handle, ModelReturns, ModelFails). The one step that leaves
\* the position as it is, ModelEmit, is the model still writing its array.
Settles ==
    /\ pc \in Awaiting
    /\ \E p \in (Awaiting \cup {"done"}) \ {pc} : pc' = p

\* the request under the condition that every awaited call returns or fails
SpecLive == Init /\ [][Next]_vars /\ WF_pc(Settles)

----------------------------------------------------------------------------
(* Properties of the request *)

Lenient == ~Strict(variant)
Answered == pc = "done" /\ Len(response) = 1
Succeeded == Answered /\ response[1].status = 200
Result == response[1].body.result
ModelArray == pc = "done" /\ modelOut.kind = "array"

FourDistinct(options) ==
    /\ Len(options) = 4
    /\ \A a, b \in 1..4 : a # b => options[a] # options[b]

WellFormed(q) ==
    /\ FinalFields \subseteq DOMAIN q
    /\ FourDistinct(q.options)
    /\ q.correctAnswer \in Range(q.options)

\* C1: in the lenient variants every question of a returned list has exactly
\* 4 pairwise-distinct options, its correctAnswer among them, and a question
\* text of at least 20 characters.
C1_LenientWellFormed ==
    (Succeeded /\ Lenient) =>
        \A i \in DOMAIN Result :
            WellFormed(Result[i]) /\ Len(Result[i].question) >= LenientMinLength

\* C2: in the strict variant every question of a returned list has 4
\* pairwise-distinct options and its correctAnswer (where it carries one)
\* among them, so an item with a repeated option is never returned.
C2_StrictWellFormed ==
    (Succeeded /\ Strict(variant)) =>
        \A i \in DOMAIN Result :
            /\ HasField(Result[i], "options")
            /\ FourDistinct(Result[i].options)
            /\ HasField(Result[i], "correctAnswer") =>
                  Result[i].correctAnswer \in Range(Result[i].options)

Rank(track) ==
    IF HasCodeEn(track) THEN 1
    ELSE IF HasNameEnglish(track) THEN 2
    ELSE IF HasUrlLangEn(track) THEN 3
    ELSE 4

Selecting == pc = "track" /\ frame \in {"app", "transcript"}

WordCount(t) ==
    Cardinality({i \in DOMAIN t : ~IsSpace(t[i]) /\ (i = 1 \/ IsSpace(t[i - 1]))})

\* C4: a resolver with the word gate (api/app.js, transcript.js) returns a
\* transcript string to the handler only if the text has at least 50
\* whitespace-delimited tokens; with fewer the generator is never reached.
C4_WordGate ==
    (pc = "resolved" /\ frame \in {"app", "transcript"} /\ resolved.type = "string") =>
        WordCount(resolved.text) >= MinWords

\* C5: the generator and the model are reached only with a transcript that is
\* a string; when the resolver returned an error object the handler answers
\* with that error and the object never reaches the generator.
C5_GeneratorGetsString ==
    /\ genArg.type # "none" => genArg.type = "string"
    /\ (\E i \in DOMAIN calls : calls[i] = "model") => genArg.type = "string"
    /\ (pc \in {"model", "done"} /\ resolved.type = "error") =>
          /\ Answered
          /\ response[1].status \in {400, 404}
          /\ response[1].body = [error |-> resolved.error]
          /\ genArg.type = "none"
          /\ modelOut = NoModelOut

\* the resolver returned an error object and the handler has answered with it
C5_ErrorAnswered ==
    /\ pc = "done"
    /\ resolved.type = "error"
    /\ Len(response) = 1
    /\ response[1].body = [error |-> resolved.error]
    /\ ~\E i \in DOMAIN calls : calls[i] = "model"

\* an item that the two filters keep, each asked about the item alone
Survives(v, q) == ConfidenceOf(v, q) = "keep" /\ ValidationOf(v, q) = "keep"
Survivors(v, items) == Cardinality({i \in DOMAIN items : Survives(v, items[i])})

\* an item on which a filter callback raises when it is reached
Raises(v, items) ==
    \E i \in DOMAIN items :
        \/ ConfidenceOf(v, items[i]) = "throw"
        \/ ConfidenceOf(v, items[i]) = "keep" /\ ValidationOf(v, items[i]) = "throw"

\* C6: an invalid item (one without the question field, or null) is dropped
\* alone: a model array holding at least the floor of items that pass both
\* filters is answered with success, whatever invalid items stand beside them.
C6_InvalidItemDiscarded ==
    (ModelArray /\ Survivors(variant, modelOut.items) >= Floor(variant)) => Succeeded

\* C7: every success carries at least the floor of questions (3 lenient, 5
\* strict); when the filters raise nothing, fewer survivors than the floor
\* are answered with status 400 and the not-enough message, and the floor
\* exactly or more with success and all the survivors.
C7_YieldGate ==
    /\ Succeeded =>
          Len(Result) >= (IF Strict(variant) THEN StrictFloor ELSE LenientFloor)
    /\ (ModelArray /\ ~Raises(variant, modelOut.items)) =>
          IF Survivors(variant, modelOut.items)
                 < (IF Strict(variant) THEN StrictFloor ELSE LenientFloor)
          THEN response = <<[status |-> 400, body |-> [error |-> MsgNotEnoughQuiz]]>>
          ELSE Succeeded /\ Len(Result) = Survivors(variant, modelOut.items)

\* one survivor fewer than the floor, answered 400
C7_OneShort ==
    /\ ModelArray
    /\ ~Raises(variant, modelOut.items)
    /\ Survivors(variant, modelOut.items) + 1 = Floor(variant)
    /\ Answered
    /\ response[1].status = 400

\* the lenient conditions on one item: confident, and structurally valid by
\* the generator's three tests
LenientPasses(q) ==
    /\ ~IsNull(q)
    /\ HasField(q, "confidence")
    /\ q.confidence >= LenientThreshold
    /\ FinalFields \subseteq DOMAIN q
    /\ Len(q.question) >= LenientMinLength
    /\ Cardinality(Range(q.options)) = 4
    /\ q.correctAnswer \in Range(q.options)

C9_ExactFields ==
    Succeeded => \A i \in DOMAIN Result : DOMAIN Result[i] = FinalFields

----------------------------------------------------------------------------
(* The segment decoding alone: a segment is written, then decoded twice *)

InitDecode ==
    /\ variant = "app"
    /\ Quiet
    /\ segment = <<>>
    /\ decoded = <<>>
    /\ QuietElsewhere

SegmentText == Flatten(segment)

WriteSegment(piece) ==
    /\ decoded = <<>>
    /\ Len(segment) < MaxPieces
    /\ segment' = Append(segment, piece)
    /\ UNCHANGED <<variant, pc, frame, videoId, calls, tracks, trackUrl, resolved,
                   genArg, modelOut, response, decoded, elsewhere>>

Decode ==
    /\ Len(decoded) < 2
    /\ decoded' = Append(decoded,
                         CleanSegment(IF decoded = <<>> THEN SegmentText ELSE decoded[1]))
    /\ UNCHANGED <<variant, pc, frame, videoId, calls, tracks, trackUrl, resolved,
                   genArg, modelOut, response, segment, elsewhere>>

NextDecode ==
    \/ decoded = <<>> /\ \E piece \in Pieces : WriteSegment(piece)
    \/ Decode

SpecDecode == InitDecode /\ [][NextDecode]_vars

\* C10: decoding a caption segment is idempotent: decoding the decoded text
\* again gives the same text.
C10_DecodeIdempotent == Len(decoded) = 2 => decoded[2] = decoded[1]

\* C11 as stated: the decoded segment holds no '&' with a ';' anywhere after it.
C11_NoAmpersandBeforeSemicolon ==
    Len(decoded) >= 1 =>
        ~\E i, j \in DOMAIN decoded[1] :
            i < j /\ decoded[1][i] = "&" /\ decoded[1][j] = ";"

\* C11 amended: the decoded segment holds no entity-like substring in the
\* sense of the pattern: no '&', then one or more characters other than ';',
\* then ';'. An '&' directly followed by ';' is left as it is.
C11_NoResidualEntity ==
    Len(decoded) >= 1 =>
        ~\E i, j \in DOMAIN decoded[1] :
            /\ i + 1 < j
            /\ decoded[1][i] = "&"
            /\ decoded[1][j] = ";"
            /\ \A k \in (i + 1)..(j - 1) : decoded[1][k] # ";"

\* a segment with two entities the chain does not list and a word between
\* them, decoded to the word between two spaces
C11_TwoEntitiesStripped ==
    /\ segment = <<EntNbsp, Ch("w"), EntNbsp>>
    /\ Len(decoded) >= 1
    /\ decoded[1] = <<" ", "w", " ">>

----------------------------------------------------------------------------
(* Further properties of the request *)

\* the resolver's error for a transcript that is too short
TooShort == {MsgNotEnoughContent, MsgNotEnoughTranscript}

\* C12: whenever the resolver returned the too-short error, the handler
\* answers with status 400, in every server variant.
C12_TooShortIs400 ==
    (pc = "done" /\ resolved.type = "error" /\ resolved.error \in TooShort) =>
        Answered /\ response[1].status = 400

\* C13: a request without a videoId (or with an empty one) is answered with
\* status 400 and "Video ID is required", and no external call is made for it.
C13_MissingVideoId ==
    (pc # "idle" /\ videoId \in {NoValue, ""}) =>
        /\ pc = "done"
        /\ response = <<[status |-> 400, body |-> [error |-> MsgVideoIdRequired]]>>
        /\ calls = <<>>
        /\ resolved.type = "none"
        /\ genArg.type = "none"
        /\ modelOut = NoModelOut

\* a request without videoId has been answered
C13_MissingAnswered ==
    /\ pc = "done"
    /\ videoId = ""
    /\ calls = <<>>
    /\ Len(response) = 1
    /\ response[1].status = 400

\* how many times an external call was made for the request
Count(call) == Cardinality({i \in DOMAIN calls : calls[i] = call})

\* C14: when the model call is rejected, gives no response text, gives text
\* that is not JSON, or gives JSON that is no array, the handler answers with
\* status 500 and an error body without result, after one model call and no
\* other call after it.
C14_ModelFailureIs500 ==
    (pc = "done" /\ modelOut.kind \in Failures) =>
        /\ response = <<[status |-> 500, body |-> [error |-> MsgGenerateFailed]]>>
        /\ Count("model") = 1
        /\ calls[Len(calls)] = "model"

\* the model gave text that is not JSON and the request was answered 500
C14_InvalidJsonAnswered ==
    /\ pc = "done"
    /\ modelOut.kind = "invalidJson"
    /\ Len(response) = 1
    /\ response[1].status = 500

\* the error object of the resolver's outer catch
Unavailable(f) ==
    IF f = "app" THEN MsgFailedFetch
    ELSE IF f = "transcript" THEN MsgNotAvailable
    ELSE MsgRequestFailed

\* C15: getYouTubeTranscript never raises: whatever the fetches do and
\* return, what reaches the handler is a transcript string or an object with
\* an error; and a failed page fetch or track fetch gives the error object of
\* the resolver's catch.
C15_ResolverNeverRaises ==
    /\ [](pc = "resolved" => resolved.type \in {"string", "error"})
    /\ [][(PageFails \/ TrackFails) =>
             resolved' = [type |-> "error", error |-> Unavailable(frame)]]_vars

\* the track fetch failed in api/app.js and the resolver returned its error
C15_TrackFailureReturned ==
    /\ pc = "resolved"
    /\ frame = "app"
    /\ calls = <<"direct", "page", "track">>
    /\ resolved = [type |-> "error", error |-> MsgFailedFetch]

\* a page with no caption metadata at all
NoMetadata == Page(Absent, Absent, <<>>)

\* C16: when the page that arrives (after a direct attempt without caption
\* markup, where the resolver makes one) has no caption metadata at all, the
\* resolver returns { error: "Transcripts not available" } without fetching a
\* track, and a request whose resolver returned that object is answered with
\* exactly that body and without a call of the model.
C16_NoCaptionsAnswered ==
    /\ [][PageReturns(NoMetadata) =>
             /\ resolved' = ErrorResult(MsgNotAvailable)
             /\ pc' = "resolved"
             /\ calls' = calls
             /\ Count("track") = 0]_vars
    /\ [](Answered /\ resolved = ErrorResult(MsgNotAvailable) =>
             /\ response[1].body = [error |-> MsgNotAvailable]
             /\ response[1].status = ResolverErrorStatus(variant)
             /\ Count("model") = 0)

\* api/app.js answers after the direct attempt and the page alone with the
\* error of the missing captions
C16_NoCaptionsAfterPage ==
    /\ Answered /\ variant = "app"
    /\ calls = <<"direct", "page">>
    /\ resolved = ErrorResult(MsgNotAvailable)
    /\ response[1] = [status |-> 400, body |-> [error |-> MsgNotAvailable]]

\* the elements of seq at the indices in S, in their order
Picked(seq, S) ==
    [k \in 1..Cardinality(S) |->
        seq[CHOOSE i \in S : Cardinality({j \in S : j < i}) = k - 1]]

\* the items of the model's array that carry a confidence of at least the
\* variant's threshold
Confident ==
    LET AtLeast(q) == /\ ~IsNull(q)
                      /\ HasField(q, "confidence")
                      /\ q.confidence >= Threshold(variant)
    IN  SelectSeq(modelOut.items, AtLeast)

\* C17: every returned question comes, in order, from an item of the model's
\* array that has a confidence and whose confidence is not below the variant's
\* threshold (0.6 lenient, 0.8 strict); when all of those items also pass the
\* validation, the returned list is all of them, so an item at exactly the
\* threshold is kept and an item without confidence is dropped; and when in
\* that case they are fewer than the floor, the items below the threshold or
\* without confidence do not make up the number.
C17_ConfidenceFilter ==
    LET valid == \A i \in DOMAIN Confident :
                     ValidationOf(variant, Confident[i]) = "keep"
        noNull == \A i \in DOMAIN modelOut.items : ~IsNull(modelOut.items[i])
    IN  /\ (Succeeded /\ modelOut.kind = "array") =>
              /\ \E S \in SUBSET DOMAIN Confident :
                    Result = ProjectAll(Picked(Confident, S))
              /\ valid => Result = ProjectAll(Confident)
        /\ (ModelArray /\ noNull /\ valid /\ Len(Confident) < Floor(variant)) =>
              response = <<[status |-> 400, body |-> [error |-> MsgNotEnoughQuiz]]>>

\* a lenient success whose array held an item at confidence 0.6 exactly, which
\* was returned, and an item without confidence, which alone was not
C17_EdgeKeptMissingDropped ==
    /\ Succeeded
    /\ Lenient
    /\ modelOut.kind = "array"
    /\ \E i \in DOMAIN modelOut.items : modelOut.items[i] = QEdgeLenient
    /\ \E i \in DOMAIN modelOut.items : modelOut.items[i] = QNoConfidence
    /\ \E i \in DOMAIN Result : Result[i] = Project(QEdgeLenient)
    /\ Len(Result) = Len(modelOut.items) - 1

Calls == {"direct", "page", "track", "model"}

\* C18: within a request each external call is made at most once; the step in
\* which the page fetch, the track fetch or the model call fails makes no
\* call, the failed fetch is returned as an error object, the failed model
\* call ends the request, and from an error object or an ended request on the
\* list of calls never grows.
C18_NoRetry ==
    /\ [](\A c \in Calls : Count(c) <= 1)
    /\ [][(PageFails \/ TrackFails) =>
             calls' = calls /\ resolved'.type = "error"]_vars
    /\ [][(\E kind \in Failures : ModelFails(kind)) =>
             calls' = calls /\ pc' = "done"]_vars
    /\ [][(resolved.type = "error" \/ pc = "done") => calls' = calls]_vars

\* the track fetch of api/app.js failed and the request was answered with all
\* three fetches made once and no model call
C18_AnsweredAfterTrackFailure ==
    /\ Answered /\ variant = "app"
    /\ calls = <<"direct", "page", "track">>
    /\ response[1] = [status |-> 400, body |-> [error |-> MsgFailedFetch]]

\* C19: in the resolver of api/app.js the direct captions endpoint is the
\* first call of every request; the page is requested only in a step in which
\* the direct attempt fails or returns content without caption markup; a
\* direct response with caption markup is processed and returned in the same
\* step, and from a returned value on no page and no track is fetched; a failed
\* direct fetch leaves the resolver without a result and waiting for the page.
C19_DirectFirst ==
    /\ [](variant = "app" /\ calls # <<>> => calls[1] = "direct")
    /\ [][(variant = "app" /\ Count("page")' > Count("page")) =>
             \/ DirectFails
             \/ \E data \in Bodies : ~data.hasTextTag /\ DirectReturns(data)]_vars
    /\ [][\A data \in Bodies : (data.hasTextTag /\ DirectReturns(data)) =>
             /\ pc' = "resolved"
             /\ resolved' = Processed["app"][data]
             /\ calls' = <<"direct">>]_vars
    /\ [][(pc \in {"resolved", "model", "done"}) =>
             (calls' = calls \/ calls' = Append(calls, "model"))]_vars
    /\ [][DirectFails =>
             /\ pc' = "page"
             /\ resolved' = [type |-> "none"]
             /\ response' = <<>>]_vars

\* the direct response carried enough caption text: the resolver returned it
\* as a string after the one call
C19_DirectAlone ==
    /\ pc = "resolved" /\ frame = "app"
    /\ calls = <<"direct">>
    /\ resolved.type = "string"

\* C20: in the resolvers that scan for caption-track URLs (api/app.js and
\* transcript.js), whenever the page that arrives holds at least one URL the
\* scan's expression matches, the extraction gives a non-empty list of tracks,
\* whether or not the two markers are in the page and their text is JSON.
C20_ScanFindsTracks ==
    [][\A doc \in Docs :
          (/\ frame \in {"app", "transcript"}
           /\ doc.isString
           /\ doc.urls # <<>>
           /\ PageReturns(doc)) =>
              /\ Extract(frame, doc).ok
              /\ Extract(frame, doc).tracks # <<>>]_vars

\* the track lists of one or more tracks that each carry a baseUrl
WithUrls ==
    {l \in TrackLists : l # <<>> /\ \A i \in DOMAIN l : BaseUrlOf(l[i]) # NoUrl}

\* C21: when the page that arrives has no "captions": marker and under
\* "captionTracks": a JSON array of one or more tracks that each carry a
\* baseUrl, the resolver takes exactly that array as its track list, selects
\* one of its tracks and goes on to fetch that track's URL.
C21_AlternateArray ==
    [][\A l \in WithUrls :
          (/\ frame \in {"app", "transcript"}
           /\ PageReturns(Page(Absent, TrackArray(l), UrlsOf(l)))) =>
              /\ pc' = "track"
              /\ tracks' = l
              /\ \E i \in DOMAIN l : trackUrl' = l[i].baseUrl]_vars

\* some track of the list carries a baseUrl
SomeUrl(list) == \E i \in DOMAIN list : BaseUrlOf(list[i]) # NoUrl

\* C22: when the extraction of the page that arrives gave a track list, the
\* resolver returns { error: "Transcripts not available" } without a track
\* fetch if no track of the list has a baseUrl, and goes on to fetch a track
\* URL if some track has one.
C22_SelectionFailsOnlyWithoutUrl ==
    [][\A doc \in Docs :
          (/\ frame \in {"app", "transcript"}
           /\ doc.isString
           /\ Extract(frame, doc).ok
           /\ PageReturns(doc)) =>
              IF SomeUrl(Extract(frame, doc).tracks)
              THEN pc' = "track" /\ calls' = Append(calls, "track")
              ELSE /\ pc' = "resolved"
                   /\ resolved' = ErrorResult(MsgNotAvailable)
                   /\ calls' = calls]_vars

----------------------------------------------------------------------------
(* validateQuestionCompleteness alone: a question text is written, then *)
(* validated *)

MaxParts == 3        \* pieces a question text is written from

\* pieces of question texts: a stem of 30 characters, two dangling references
\* (one capitalised), a phrase with two spaces that no pattern matches, two
\* pieces with characters of the class [=<>+\-*\/^...], and endings
PStem == Pad(30) \o Ch(" ")
PSolveFor == <<"S","o","l","v","e"," ","f","o","r"," ","k">>
PThisEquation == <<" ","t","h","i","s"," ","E","q","u","a","t","i","o","n">>
PTwoSpaces == <<" ","t","h","e"," ","g","i","v","e","n"," "," ","p","r","o","b","l","e","m">>
PEquals == <<" ","x"," ","="," ","2">>
PHyphen == <<" ","w","e","l","l","-","k","n","o","w","n">>
PMark == Ch("?")
POf == <<" ","o","f">>
PToDot == <<" ","T","o","."," ">>
PAlpha == <<" ","a","l","p","h","a">>

DanglingPieces == {PSolveFor, PThisEquation}
NotationPieces == {PEquals, PHyphen}
QuestionPieces ==
    DanglingPieces \cup NotationPieces
    \cup {PStem, PTwoSpaces, PMark, POf, PToDot, PAlpha}

InitValidator ==
    /\ variant = "server"
    /\ Quiet
    /\ segment = <<>>
    /\ decoded = <<>>
    /\ QuietElsewhere

QuestionText == Flatten(question)

WriteQuestion(piece) ==
    /\ isComplete = "none"
    /\ Len(question) < MaxParts
    /\ question' = Append(question, piece)
    /\ UNCHANGED <<requestVars, decodeVars, isComplete, cleanVars, browserVars>>

\* validatedQuestions = highQualityQuestions.filter(q => validateQuestionCompleteness(q))
Validate ==
    /\ isComplete = "none"
    /\ isComplete' = ValidateQuestionCompleteness([question |-> QuestionText])
    /\ UNCHANGED <<requestVars, decodeVars, question, cleanVars, browserVars>>

NextValidator ==
    \/ isComplete = "none" /\ \E piece \in QuestionPieces : WriteQuestion(piece)
    \/ Validate

SpecValidator == InitValidator /\ [][NextValidator]_vars

Has(pieces) == \E i \in DOMAIN question : question[i] \in pieces

LastWord(t) ==
    LET lower == ToLowerCase(Trim(t))
        bare == IF lower # <<>> /\ lower[Len(lower)] = "." 
                THEN SubSeq(lower, 1, Len(lower) - 1) ELSE lower
        spaces == {i \in DOMAIN bare : IsSpace(bare[i])}
        last == IF spaces = {} THEN 0 ELSE CHOOSE i \in spaces : \A k \in spaces : k <= i
    IN  SubSeq(bare, last + 1, Len(bare))

\* C24: a question that the other rules accept (no dangling reference without
\* notation, 30 characters or more) is rejected exactly when the last word of
\* its trimmed text is one of in, of, for, with, by, the, a, to, as.
C24_IncompleteEnding ==
    (/\ isComplete # "none"
     /\ ~(Has(DanglingPieces) /\ ~Has(NotationPieces))
     /\ Len(QuestionText) >= StrictMinLength) =>
        (isComplete = "drop" <=> LastWord(QuestionText) \in EndWords)

----------------------------------------------------------------------------
(* The pre-clean of the lenient generateQuestions alone *)

MaxSpoken == 5       \* pieces a transcript is written from

\* the length of the match of /(\w+)(\s\1){n}/ at position i of s, 0 if there
\* is none: the longest \w+ is tried first, then shorter ones
RepeatAt(s, i, n) ==
    LET fits(k) ==
            /\ i + (n + 1) * k + n - 1 <= Len(s)
            /\ \A j \in 0..(k - 1) : IsWordChar(s[i + j])
            /\ \A r \in 1..n :
                  /\ IsSpace(s[i + r * (k + 1) - 1])
                  /\ SubSeq(s, i + r * (k + 1), i + r * (k + 1) + k - 1)
                        = SubSeq(s, i, i + k - 1)
        ks == {k \in 1..Len(s) : fits(k)}
    IN  IF ks = {} THEN 0 ELSE CHOOSE k \in ks : \A m \in ks : m <= k

RECURSIVE CollapseFrom(_, _, _, _)
\* s.replace(/(\w+)(\s\1){n}/g, r) from position i on, where r is $1 written
\* keep times with single spaces: leftmost matches, not overlapping
CollapseFrom(s, i, n, keep) ==
    IF i > Len(s) THEN <<>>
    ELSE LET k == RepeatAt(s, i, n)
             w == SubSeq(s, i, i + k - 1)
         IN  IF k = 0 THEN <<s[i]>> \o CollapseFrom(s, i + 1, n, keep)
             ELSE JoinSpace([j \in 1..keep |-> w])
                  \o CollapseFrom(s, i + (n + 1) * k + n, n, keep)

RECURSIVE CollapseSpaces(_)
\* s.replace(/\s{2,}/g, ' ')
CollapseSpaces(s) ==
    IF s = <<>> THEN <<>>
    ELSE IF Len(s) >= 2 /\ IsSpace(s[1]) /\ IsSpace(s[2])
    THEN LET rest == TrimStart(s) IN <<" ">> \o CollapseSpaces(rest)
    ELSE <<Head(s)>> \o CollapseSpaces(Tail(s))

\* cleanedTranscript of the lenient generateQuestions
PreClean(t) ==
    Trim(CollapseSpaces(CollapseFrom(CollapseFrom(t, 1, 2, 2), 1, 1, 1)))

SpokenPieces == {<<"i","s">>, <<"t","h","i","s">>, <<"g","o">>, Ch(" "), Ch("\n")}

InitClean ==
    /\ variant = "app"
    /\ Quiet
    /\ segment = <<>>
    /\ decoded = <<>>
    /\ QuietElsewhere

SpokenText == Flatten(spoken)

Speak(piece) ==
    /\ cleanedTranscript = <<>>
    /\ Len(spoken) < MaxSpoken
    /\ spoken' = Append(spoken, piece)
    /\ UNCHANGED <<requestVars, decodeVars, validatorVars, cleanedTranscript,
                   browserVars>>

\* generateQuestions up to the prompt; the cleaned text is kept as its one
\* element, so that an empty result is told from no result
Clean ==
    /\ cleanedTranscript = <<>>
    /\ cleanedTranscript' = <<PreClean(SpokenText)>>
    /\ UNCHANGED <<requestVars, decodeVars, validatorVars, spoken, browserVars>>

NextClean ==
    \/ cleanedTranscript = <<>> /\ \E piece \in SpokenPieces : Speak(piece)
    \/ Clean

SpecClean == InitClean /\ [][NextClean]_vars

RECURSIVE Tokens(_)
\* the whole words of a text: its maximal runs of characters other than
\* whitespace, in order
Tokens(s) ==
    LET t == TrimStart(s)
        ends == {i \in DOMAIN t : IsSpace(t[i])}
        stop == IF ends = {} THEN Len(t) + 1 ELSE CHOOSE i \in ends : \A k \in ends : i <= k
    IN  IF t = <<>> THEN <<>>
        ELSE <<SubSeq(t, 1, stop - 1)>> \o Tokens(SubSeq(t, stop, Len(t)))

NoRepeatedWord(s) ==
    \A i \in 1..(Len(Tokens(s)) - 1) : Tokens(s)[i] # Tokens(s)[i + 1]
NoSpaceRun(s) == \A i \in 1..(Len(s) - 1) : ~(IsSpace(s[i]) /\ IsSpace(s[i + 1]))

\* C25: the pre-clean gives back a transcript that has no whole word repeated
\* in a row and no run of whitespace as it was, apart from trimming; and a
\* word written two or three times with one whitespace character between the
\* copies comes out once.
C25_PreCleanOnlyCollapses ==
    cleanedTranscript # <<>> =>
        /\ (NoRepeatedWord(SpokenText) /\ NoSpaceRun(SpokenText)) =>
               cleanedTranscript[1] = Trim(SpokenText)
        /\ (/\ NoSpaceRun(SpokenText)
            /\ Len(Tokens(SpokenText)) \in {2, 3}
            /\ \A i \in DOMAIN Tokens(SpokenText) :
                   Tokens(SpokenText)[i] = Tokens(SpokenText)[1]) =>
               cleanedTranscript[1] = Tokens(SpokenText)[1]

----------------------------------------------------------------------------
(* The request under fairness *)

\* C26: the handler sends at most one response; it has sent exactly one when
\* the request is finished and none before; a response once sent is followed
\* by no other; its body has the one field result or the one field error; and
\* when every awaited call returns or fails, every received request is
\* finished.
C26_AnsweredExactlyOnce ==
    /\ [](Len(response) <= 1)
    /\ [](pc = "done" <=> Len(response) = 1)
    /\ [](\A i \in DOMAIN response :
             DOMAIN response[i].body \in {{"result"}, {"error"}})
    /\ [][response # <<>> => response' = response]_vars
    /\ (pc # "idle") ~> (pc = "done")

\* a request answered with a result after all four calls
C26_AnsweredWithResult ==
    /\ pc = "done"
    /\ calls = <<"direct", "page", "track", "model">>
    /\ Len(response) = 1
    /\ DOMAIN response[1].body = {"result"}

-----------------------------------------------------------------------------
(* The page scripts: frontend/code.js, unnamed/part_003 and the page script
   in backend/server.js *)

MaxQuiz == 4         \* items in a result the page receives
MaxFlagged == 1      \* items of a result other than the complete question
MaxFetches == 2      \* click handlers suspended at fetch at one time

IncompleteLength == 30    \* q.question.length < 30
ProblematicLength == 15   \* q.question.length < 15
MinQuiz == 3              \* quizData.length < 3

Frontends == {"code", "part003", "server"}

\* the scripts whose click handler disables the button while it works
HasLoadingState(f) == f \in {"part003", "server"}

\* an item of data.result: the length of its question, and whether its
\* options are four and hold the correct answer
QComplete == [length |-> 40, options |-> TRUE]
QuizItems == {QComplete,
              [length |-> 10, options |-> TRUE],
              [length |-> 40, options |-> FALSE]}

RECURSIVE QuizArrays(_)
QuizArrays(n) ==
    IF n = 0 THEN {<<>>}
    ELSE LET shorter == QuizArrays(n - 1)
         IN  shorter \cup
             {Append(a, q) : a \in {b \in shorter : Len(b) = n - 1}, q \in QuizItems}

FlaggedCount(a) == Len(SelectSeq(a, LAMBDA q : q # QComplete))

Results == {a \in QuizArrays(MaxQuiz) : a # <<>> /\ FlaggedCount(a) <= MaxFlagged}

\* what fetch resolves with: response.ok, and what response.json() gives:
\* a rejection, an object with an error, an object without a usable result,
\* or an object whose result is a non-empty array
ReplyBodies ==
    {[kind |-> k, result |-> <<>>] :
        k \in {"notJson", "notAvailable", "notEnough", "otherError", "noResult"}}
    \cup {[kind |-> "result", result |-> a] : a \in Results}

\* response.ok is read by the script in server.js alone, and its handler
\* leaves a response that is not ok before it looks for a result
Replies(f) ==
    [ok : {TRUE}, body : ReplyBodies]
    \cup IF f = "server"
         THEN [ok : {FALSE}, body : {b \in ReplyBodies : b.kind # "result"}]
         ELSE {}

\* what is typed in the URL field when the button is clicked
UrlInputs == {"empty", "invalid", "noId", "withId"}

InitBrowser ==
    /\ variant = "app"
    /\ Quiet
    /\ segment = <<>>
    /\ decoded = <<>>
    /\ QuietValidator
    /\ QuietClean
    /\ frontend \in Frontends
    /\ quizData = <<>>
    /\ currentQuestion = 0
    /\ score = 0
    /\ incorrectAnswers = <<>>
    /\ btn = [disabled |-> FALSE, textContent |-> "Get Questions"]
    /\ fetches = 0
    /\ quizContainer = "empty"
    \* the markup of the page is not part of the repository: the buttons may
    \* be displayed or hidden when the script starts
    /\ submitButton \in BOOLEAN
    /\ retryButton \in BOOLEAN

\* the variables and elements the functions of the script read and write
ThePage ==
    [quizData |-> quizData, currentQuestion |-> currentQuestion, score |-> score,
     incorrectAnswers |-> incorrectAnswers, btn |-> btn,
     quizContainer |-> quizContainer, submitButton |-> submitButton,
     retryButton |-> retryButton]

Becomes(p) ==
    /\ quizData' = p.quizData
    /\ currentQuestion' = p.currentQuestion
    /\ score' = p.score
    /\ incorrectAnswers' = p.incorrectAnswers
    /\ btn' = p.btn
    /\ quizContainer' = p.quizContainer
    /\ submitButton' = p.submitButton
    /\ retryButton' = p.retryButton

SetLoadingState(p) ==
    [p EXCEPT !.btn = [disabled |-> TRUE, textContent |-> "Loading..."]]

ResetButtonState(p) ==
    [p EXCEPT !.btn = [disabled |-> FALSE, textContent |-> "Get Questions"]]

DisplayResult(p) ==
    [p EXCEPT !.submitButton = FALSE, !.retryButton = TRUE]

DisplayQuestion(p) ==
    IF p.currentQuestion >= Len(p.quizData)
    THEN DisplayResult(p)
    ELSE [p EXCEPT !.quizContainer = "question"]

StartQuiz(f, p) ==
    DisplayQuestion([p EXCEPT !.currentQuestion = 0,
                              !.score = 0,
                              !.incorrectAnswers = <<>>,
                              \* part_003 and server.js: quizContainer.innerHTML = ''
                              !.quizContainer = IF f = "code" THEN @ ELSE "empty",
                              !.submitButton = TRUE,
                              !.retryButton = FALSE])

\* checkAnswer with no radio input checked ("none"), or with the checked one
\* equal to the correct answer of quizData[currentQuestion] or not
Selections == {"none", "right", "wrong"}

CheckAnswer(p, selected) ==
    IF selected = "none" THEN p
    ELSE IF p.currentQuestion >= Len(p.quizData)
    THEN \* quizData[currentQuestion] is undefined: reading correctAnswer
         \* raises a TypeError in the event listener
         p
    ELSE DisplayQuestion(
             [p EXCEPT !.score = IF selected = "right" THEN @ + 1 ELSE @,
                       !.incorrectAnswers =
                           IF selected = "right" THEN @
                           ELSE Append(@, p.quizData[p.currentQuestion + 1]),
                       !.currentQuestion = @ + 1])

Incomplete(q) == q.length < IncompleteLength
Problematic(q) == q.length < ProblematicLength \/ ~q.options

\* a catch block that leaves the button as it is
CaughtWithoutReset(f, p) == p

\* the catch block of the click handler
Caught(f, p) == IF HasLoadingState(f) THEN ResetButtonState(p) ELSE p

\* the click handler after await fetch(...) resolved
AfterFetch(f, p, reply) ==
    LET body == reply.body
        received == [p EXCEPT !.quizData = body.result]
        kept == SelectSeq(body.result, LAMBDA q : ~Problematic(q))
        filtered == [p EXCEPT !.quizData = kept]
    IN  IF f = "code"
        THEN IF body.kind = "notJson" THEN Caught(f, p)
             ELSE IF body.kind # "result" THEN p
             ELSE StartQuiz(f, received)
        ELSE IF f = "part003"
        THEN IF body.kind = "notJson" THEN Caught(f, p)
             ELSE IF body.kind # "result" THEN ResetButtonState(p)
             ELSE IF \E i \in DOMAIN body.result : Incomplete(body.result[i])
             THEN ResetButtonState(received)
             ELSE ResetButtonState(StartQuiz(f, received))
        ELSE IF body.kind = "notJson" THEN Caught(f, p)
             ELSE IF ~reply.ok \/ body.kind # "result" THEN ResetButtonState(p)
             ELSE IF kept = body.result
             THEN ResetButtonState(StartQuiz(f, received))
             ELSE IF Len(kept) < MinQuiz THEN ResetButtonState(filtered)
             ELSE ResetButtonState(StartQuiz(f, filtered))

\* the click handler up to await fetch(...): whether it reached the fetch, and
\* the page it leaves. hasProcess: whether the page defines process, which
\* the script in server.js reads before the fetch.
ClickHandler(f, p, input, hasProcess) ==
    IF f = "code"
    THEN [fetched |-> input \in {"invalid", "withId"}, page |-> p]
    ELSE IF input \in {"empty", "invalid"} THEN [fetched |-> FALSE, page |-> p]
    ELSE IF input = "noId"
    THEN [fetched |-> FALSE, page |-> ResetButtonState(SetLoadingState(p))]
    ELSE IF f = "server" /\ ~hasProcess
    THEN [fetched |-> FALSE, page |-> Caught(f, SetLoadingState(p))]
    ELSE [fetched |-> TRUE, page |-> SetLoadingState(p)]

\* a click event that reaches the listener of a disabled button too
DispatchToDisabled(input) ==
    \E hasProcess \in BOOLEAN :
        LET run == ClickHandler(frontend, ThePage, input, hasProcess)
        IN  /\ run.fetched => fetches < MaxFetches
            /\ Becomes(run.page)
            /\ fetches' = IF run.fetched THEN fetches + 1 ELSE fetches
            /\ UNCHANGED <<requestVars, decodeVars, validatorVars, cleanVars,
                           frontend>>

\* a click event on the button: a disabled button dispatches none
Dispatch(input) ==
    /\ ~btn.disabled
    /\ \E hasProcess \in BOOLEAN :
        LET run == ClickHandler(frontend, ThePage, input, hasProcess)
        IN  /\ run.fetched => fetches < MaxFetches
            /\ Becomes(run.page)
            /\ fetches' = IF run.fetched THEN fetches + 1 ELSE fetches
            /\ UNCHANGED <<requestVars, decodeVars, validatorVars, cleanVars,
                           frontend>>

\* the user clicks the get-questions button
Click(input) == Dispatch(input)

\* keyup of Enter in the URL field: btn.click()
EnterKey(input) ==
    /\ HasLoadingState(frontend)
    /\ Dispatch(input)

\* fetch resolves
FetchReturns(reply) ==
    /\ fetches > 0
    /\ fetches' = fetches - 1
    /\ Becomes(AfterFetch(frontend, ThePage, reply))
    /\ UNCHANGED <<requestVars, decodeVars, validatorVars, cleanVars, frontend>>

\* fetch rejects
FetchFails ==
    /\ fetches > 0
    /\ fetches' = fetches - 1
    /\ Becomes(Caught(frontend, ThePage))
    /\ UNCHANGED <<requestVars, decodeVars, validatorVars, cleanVars, frontend>>

\* a radio input can be checked when a question is in the page
CanSelect(selected) == selected = "none" \/ quizContainer = "question"

\* the user clicks the submit button
Submit(selected) ==
    /\ submitButton
    /\ CanSelect(selected)
    /\ Becomes(CheckAnswer(ThePage, selected))
    /\ UNCHANGED <<requestVars, decodeVars, validatorVars, cleanVars, frontend,
                   fetches>>

\* the user clicks the retry button
RetryQuiz ==
    /\ retryButton
    /\ Becomes(StartQuiz(frontend, ThePage))
    /\ UNCHANGED <<requestVars, decodeVars, validatorVars, cleanVars, frontend,
                   fetches>>

NextBrowser ==
    \/ \E input \in UrlInputs : Click(input)
    \/ \E input \in UrlInputs : EnterKey(input)
    \/ fetches > 0 /\ \E reply \in Replies(frontend) : FetchReturns(reply)
    \/ FetchFails
    \/ \E selected \in Selections : Submit(selected)
    \/ RetryQuiz

SpecBrowser == InitBrowser /\ [][NextBrowser]_vars

\* C27: in the browser, after any sequence of clicks, responses, submissions
\* and retries, currentQuestion is at least 0 and at most quizData.length
C27_CurrentQuestionInRange ==
    frontend \in Frontends =>
        currentQuestion >= 0 /\ currentQuestion <= Len(quizData)

\* the submit button and the radio inputs of a question are in the page: the
\* user can submit with a selection
CanSubmitSelection == submitButton /\ quizContainer = "question"

\* C28: in the browser score + incorrectAnswers.length = currentQuestion in
\* every state; startQuiz (and retryQuiz, which only calls it) resets the
\* three to 0, 0 and the empty list and leaves quizData as it is; a submission
\* with no selection changes nothing; a submission with a selection increases
\* currentQuestion by one and changes exactly one of score (by one) and
\* incorrectAnswers (by one entry)
C28_ScoreCounting ==
    frontend \in Frontends =>
        /\ score + Len(incorrectAnswers) = currentQuestion
        /\ LET started == StartQuiz(frontend, ThePage)
           IN  /\ started.currentQuestion = 0
               /\ started.score = 0
               /\ started.incorrectAnswers = <<>>
               /\ started.quizData = quizData
        /\ CheckAnswer(ThePage, "none") = ThePage
        /\ CanSubmitSelection =>
               \A selected \in Selections \ {"none"} :
                   LET checked == CheckAnswer(ThePage, selected)
                   IN  /\ checked.currentQuestion = currentQuestion + 1
                       /\ \/ /\ checked.score = score + 1
                             /\ checked.incorrectAnswers = incorrectAnswers
                          \/ /\ checked.score = score
                             /\ Len(checked.incorrectAnswers) =
                                    Len(incorrectAnswers) + 1

\* the fetch a click handler waits for resolves or rejects: the steps of
\* NextBrowser that take a handler out of its await (FetchReturns, FetchFails)
FetchSettles ==
    /\ fetches > 0
    /\ fetches' = fetches - 1

\* the page of a script with a loading state
InitLoading ==
    /\ InitBrowser
    /\ HasLoadingState(frontend)

\* that page under the condition that every fetch resolves or rejects
SpecBrowserLive == InitLoading /\ [][NextBrowser]_vars /\ WF_fetches(FetchSettles)

\* C29: in the page scripts with a loading state, every click that puts the
\* button into the loading state is followed by resetButtonState: a handler
\* that does not reach the fetch resets before it returns, the button stays
\* in the loading state only while its handler waits for the fetch, and a
\* button in the loading state is eventually reset
C29_LoadingIsReset ==
    /\ []((HasLoadingState(frontend) /\ ~btn.disabled) =>
            \A input \in UrlInputs, hasProcess \in BOOLEAN :
                LET run == ClickHandler(frontend, ThePage, input, hasProcess)
                IN  ~run.fetched => ~run.page.btn.disabled)
    /\ [](HasLoadingState(frontend) => (btn.disabled <=> fetches > 0))
    /\ [](btn.disabled <=> btn.textContent = "Loading...")
    /\ (btn.disabled ~> (~btn.disabled /\ btn.textContent = "Get Questions"))

\* the button is as resetButtonState leaves it after a response that started
\* a quiz, and after a click whose handler waits for the next response
C29_ResetAfterQuizStarted ==
    /\ HasLoadingState(frontend)
    /\ quizData # <<>>
    /\ ~btn.disabled
    /\ btn.textContent = "Get Questions"
    /\ fetches = 0

\* C30: in the page scripts with a loading state at most one quiz request is
\* in flight: while one is pending, clicks and presses of Enter start no
\* second one
C30_OneRequestInFlight ==
    /\ [](HasLoadingState(frontend) => fetches <= 1)
    /\ [][(HasLoadingState(frontend) /\ fetches > 0) => fetches' <= fetches]_vars
    /\ [](HasLoadingState(frontend) /\ fetches > 0 => btn.disabled)

\* a request of a script with a loading state is pending
C30_RequestPending ==
    /\ HasLoadingState(frontend)
    /\ fetches = 1
    /\ btn.disabled

====
